---- MODULE Spec2Model ----
(***************************************************************************)
(* Model of the FileSharingPlatform client: the login form (Login.tsx),    *)
(* the file uploader with its simulated progress timers, and the two       *)
(* localStorage keys 'userData' and 'uploadedFiles' they share.            *)
(*                                                                         *)
(* JavaScript is single threaded: every event handler and timer callback   *)
(* runs to completion, so each one is a single action.  The login page     *)
(* comes first; a successful login leads to the page of the uploader.      *)
(***************************************************************************)
EXTENDS Integers, Sequences, FiniteSets, TLC

VARIABLES page, userData, uploadedFiles, error, uploadingFiles, timers, ev

vars == <<page, userData, uploadedFiles, error, uploadingFiles, timers, ev>>

----------------------------------------------------------------------------
(* Bounds of the exploration *)

\* number of files submitted to the uploader in one run
MaxFiles == 2
\* The values Date.now() and new Date() return.  With one value the files of
\* one name get one id, the case the id scheme leaves open, and the files of
\* different names get different ids.
Times == {0}

\* the File objects the user can pick: two of them share a name
Files ==
  { [name |-> "a.txt", type |-> "text/plain", size |-> 10],
    [name |-> "b.txt", type |-> "", size |-> 20],
    [name |-> "a.txt", type |-> "text/plain", size |-> 20] }

\* values of the email and password inputs
Emails == {"", "u@x", "v@x"}
Passwords == {"", "p", "q"}

\* values of Math.random() * 10, a number of [0, 10)
Incs == {0, 9}

----------------------------------------------------------------------------
(* localStorage: the text stored under a key, by what JSON.parse makes of  *)
(* it.  "absent": getItem returns null; "malformed": text that JSON.parse  *)
(* rejects; "null": the text 'null'; "object" / "array": a JSON value.     *)

Absent == [kind |-> "absent"]
Malformed == [kind |-> "malformed"]
JsonNull == [kind |-> "null"]

Undefined == "<undefined>"

\* property access o.k of a JavaScript object: undefined when k is missing
Get(o, k) == IF k \in DOMAIN o THEN o[k] ELSE Undefined

\* the properties of a user record that hold a string (or undefined)
StringKeys == {"name", "email", "password"}

\* the object {}
EmptyObject == [k \in {} |-> ""]

\* JSON.stringify of an object: properties whose value is undefined are dropped
JSONstringify(o) ==
  LET dropped == {k \in DOMAIN o \cap StringKeys : o[k] = Undefined}
  IN [kind |-> "object", val |-> [k \in DOMAIN o \ dropped |-> o[k]]]

\* JSON.stringify of an array of records
JSONstringifyArray(s) == [kind |-> "array", val |-> s]

\* JSON.parse raises a SyntaxError on text that is not JSON
ParseThrows(item) == item.kind = "malformed"

\* localStorage.getItem('userData') || '{}', parsed (when it parses)
ParseUserData(item) ==
  IF item.kind = "object" THEN item
  ELSE IF item.kind = "null" THEN JsonNull
  ELSE [kind |-> "object", val |-> EmptyObject]

\* localStorage.getItem('uploadedFiles') || '[]', parsed (when it parses)
ParseUploadedFiles(item) ==
  IF item.kind = "array" THEN item.val ELSE <<>>

\* the stored sequence of UploadedFileRecords as a reader sees it
StoredFiles == ParseUploadedFiles(uploadedFiles)

\* a record of an earlier session
OldRecord ==
  [id |-> <<"old.pdf", 0>>, name |-> "old.pdf", type |-> "application/pdf",
   size |-> 5, modifiedAt |-> 0, isFolder |-> FALSE]

\* the user record a signup wrote
SignedUp ==
  [kind |-> "object",
   val |-> [name |-> "Ann", email |-> "u@x", password |-> "p", isLoggedIn |-> FALSE]]

\* ev: what the last handler let the user see: the toast of a login attempt,
\* whether it called setError or raised, and its reads and writes of the store
NoEvent ==
  [op |-> "none", arg |-> <<>>, toast |-> "", setError |-> FALSE,
   threw |-> FALSE, reads |-> 0, writes |-> 0]

NoTimer == [fileId |-> <<>>, progress |-> 0, state |-> "none"]

Init ==
  /\ page = "/login"
  /\ userData \in {Absent, Malformed, JsonNull, SignedUp}
  /\ uploadedFiles \in {Absent, Malformed, JSONstringifyArray(<<OldRecord>>)}
  /\ error = ""
  /\ uploadingFiles = <<>>
  /\ timers = [f \in Files |-> NoTimer]
  /\ ev = NoEvent

----------------------------------------------------------------------------
(* Login.tsx *)

\* variant: the password is not compared
InvalidCredentials_EmailOnly(stored, email, password) ==
  \/ stored.kind = "null"
  \/ /\ stored.kind = "object"
     /\ Get(stored.val, "email") # email

\* !storedUserData || storedUserData.email !== email
\*                 || storedUserData.password !== password
InvalidCredentials(stored, email, password) ==
  \/ stored.kind = "null"
  \/ /\ stored.kind = "object"
     /\ \/ Get(stored.val, "email") # email
        \/ Get(stored.val, "password") # password

\* variant: the flag is not set
LoggedInRecord_NotLoggedIn(stored) ==
  [name |-> Get(stored.val, "name"), email |-> Get(stored.val, "email"),
   isLoggedIn |-> FALSE]

\* variant: the stored record is spread into the new one, password included
LoggedInRecord_KeepsPassword(stored) ==
  [name |-> Get(stored.val, "name"), email |-> Get(stored.val, "email"),
   password |-> Get(stored.val, "password"), isLoggedIn |-> TRUE]

\* the record handleLogin builds on success
LoggedInRecord(stored) ==
  [name |-> Get(stored.val, "name"), email |-> Get(stored.val, "email"),
   isLoggedIn |-> TRUE]

LoginEvent(email, password, toast, setErr, threw, reads, writes) ==
  [op |-> "handleLogin", arg |-> <<email, password>>, toast |-> toast,
   setError |-> setErr, threw |-> threw, reads |-> reads, writes |-> writes]

\* variant: the check of the fields is left out
FieldsMissing_Never(email, password) == FALSE

\* variant: && in place of ||
FieldsMissing_Both(email, password) == email = "" /\ password = ""

\* !email || !password
FieldsMissing(email, password) == email = "" \/ password = ""

handleLogin(email, password) ==
  /\ page = "/login"
  /\ UNCHANGED <<uploadedFiles, uploadingFiles, timers>>
  /\ IF FieldsMissing(email, password)
     THEN /\ ev' = LoginEvent(email, password, "Please fill in all fields",
                              FALSE, FALSE, 0, 0)
          /\ UNCHANGED <<page, userData, error>>
     ELSE IF ParseThrows(userData)
     THEN /\ ev' = LoginEvent(email, password, "", FALSE, TRUE, 1, 0)
          /\ UNCHANGED <<page, userData, error>>
     ELSE LET stored == ParseUserData(userData)
          IN IF InvalidCredentials(stored, email, password)
             THEN /\ error' = "Invalid credentials. Please try again."
                  /\ ev' = LoginEvent(email, password, "Invalid credentials",
                                      TRUE, FALSE, 1, 0)
                  /\ UNCHANGED <<page, userData>>
             ELSE /\ userData' = JSONstringify(LoggedInRecord(stored))
                  /\ ev' = LoginEvent(email, password, "Successfully logged in",
                                      FALSE, FALSE, 1, 1)
                  /\ page' = "/dashboard"
                  /\ UNCHANGED error

\* the user opens the login page again: the Login component mounts afresh
openLogin ==
  /\ page = "/dashboard"
  /\ \A f \in Files : timers[f].state = "none"
  /\ page' = "/login"
  /\ error' = ""
  /\ ev' = NoEvent
  /\ UNCHANGED <<userData, uploadedFiles, uploadingFiles, timers>>

----------------------------------------------------------------------------
(* The file uploader *)

\* A run of the interval callback that draws the increment 0 leaves the
\* timer as it was: ev names the file, so that the step is one to be seen.
\* Every other step of the uploader shows in the state it changes.
TickEvent(file, r) ==
  IF r = 0 THEN [NoEvent EXCEPT !.op = "tick", !.arg = file] ELSE NoEvent

\* `${file.name}-${Date.now()}`: the name, a dash and the decimal timestamp.
\* The timestamp holds no dash, so the text determines the pair.
MakeId(name, now) == <<name, now>>

\* the entry handleFileSelect creates for a file
NewEntry(file, now) ==
  [id |-> MakeId(file.name, now), file |-> file, progress |-> 0,
   status |-> "uploading"]

\* the files already handed to simulateFileUpload
Submitted == {f \in Files : timers[f].state # "none"}

\* the FileLists the user can submit: distinct File objects
FileLists ==
  {fl \in UNION {[1 .. n -> Files] : n \in 0 .. MaxFiles} :
     \A i, j \in DOMAIN fl : i # j => fl[i] # fl[j]}

\* simulateFileUpload: a fresh interval whose closure holds progress = 0
simulateFileUpload(fileId) ==
  [fileId |-> fileId, progress |-> 0, state |-> "ticking"]

handleFileSelect(files, stamps) ==
  /\ page = "/dashboard"
  /\ \A i \in DOMAIN files : files[i] \notin Submitted
  /\ Cardinality(Submitted) + Len(files) <= MaxFiles
  /\ ev' = NoEvent
  /\ UNCHANGED <<page, userData, uploadedFiles, error>>
  /\ IF Len(files) = 0
     THEN UNCHANGED <<uploadingFiles, timers>>
     ELSE LET newFiles == [i \in DOMAIN files |-> NewEntry(files[i], stamps[i])]
          IN /\ uploadingFiles' = uploadingFiles \o newFiles
             /\ timers' =
                  [f \in Files |->
                     IF \E i \in DOMAIN files : files[i] = f
                     THEN LET i == CHOOSE i \in DOMAIN files : files[i] = f
                          IN simulateFileUpload(newFiles[i].id)
                     ELSE timers[f]]

\* prev.map(f => f.id === fileId ? { ...f, progress: 100, status: 'complete' } : f)
MarkComplete(prev, fileId) ==
  [i \in DOMAIN prev |->
     IF prev[i].id = fileId
     THEN [prev[i] EXCEPT !.progress = 100, !.status = "complete"]
     ELSE prev[i]]

\* variant: the entry is built anew, with the status of a new entry
SetProgress_Reset(prev, fileId, progress) ==
  [i \in DOMAIN prev |->
     IF prev[i].id = fileId
     THEN [prev[i] EXCEPT !.progress = progress, !.status = "uploading"]
     ELSE prev[i]]

\* prev.map(f => f.id === fileId ? { ...f, progress } : f)
SetProgress(prev, fileId, progress) ==
  [i \in DOMAIN prev |->
     IF prev[i].id = fileId THEN [prev[i] EXCEPT !.progress = progress]
     ELSE prev[i]]

\* prev.filter(f => f.id !== fileId)
FilterOut(prev, fileId) == SelectSeq(prev, LAMBDA f : f.id # fileId)

\* the record the completing callback passes to saveUploadedFile
FileData(fileId, file, now) ==
  [id |-> fileId, name |-> file.name, type |-> file.type, size |-> file.size,
   modifiedAt |-> now, isFolder |-> FALSE]

\* variant: the existing records are not kept
saveUploadedFile_Overwrite(item, fileData) ==
  JSONstringifyArray(<<fileData>>)

\* saveUploadedFile: the text it stores under 'uploadedFiles'
saveUploadedFile(item, fileData) ==
  JSONstringifyArray(Append(ParseUploadedFiles(item), fileData))

\* variant: no clamp
Clamp_Missing(progress) == progress

\* if (progress >= 100) progress = 100
Clamp(progress) == IF progress >= 100 THEN 100 ELSE progress

\* one run of the interval callback of file's timer; r is Math.random() * 10
tick(file, r, now) ==
  LET t == timers[file]
      progress == Clamp(t.progress + r)
  IN /\ t.state = "ticking"
     /\ UNCHANGED <<page, userData, error>>
     /\ IF progress >= 100
        THEN IF ParseThrows(uploadedFiles)
             THEN \* JSON.parse raises inside saveUploadedFile: the interval is
                  \* cleared and the first update is queued, the rest is skipped
                  /\ timers' = [timers EXCEPT ![file].progress = progress,
                                              ![file].state = "threw"]
                  /\ uploadingFiles' = MarkComplete(uploadingFiles, t.fileId)
                  /\ ev' = TickEvent(file, r)
                  /\ UNCHANGED uploadedFiles
             ELSE /\ timers' = [timers EXCEPT ![file].progress = progress,
                                              ![file].state = "timeout"]
                  /\ uploadingFiles' =
                       SetProgress(MarkComplete(uploadingFiles, t.fileId),
                                   t.fileId, progress)
                  /\ uploadedFiles' =
                       saveUploadedFile(uploadedFiles,
                                        FileData(t.fileId, file, now))
                  /\ ev' = TickEvent(file, r)
        ELSE /\ timers' = [timers EXCEPT ![file].progress = progress]
             /\ uploadingFiles' = SetProgress(uploadingFiles, t.fileId, progress)
             /\ ev' = TickEvent(file, r)
             /\ UNCHANGED uploadedFiles

\* the setTimeout callback scheduled 2000 ms after completion
removeCompleted(file) ==
  /\ timers[file].state = "timeout"
  /\ timers' = [timers EXCEPT ![file].state = "done"]
  /\ uploadingFiles' = FilterOut(uploadingFiles, timers[file].fileId)
  /\ ev' = NoEvent
  /\ UNCHANGED <<page, userData, uploadedFiles, error>>

\* variant: the removal also takes the records of the id out of the store
removeFile_Retract(fileId) ==
  /\ page = "/dashboard"
  /\ uploadingFiles' = FilterOut(uploadingFiles, fileId)
  /\ uploadedFiles' =
       IF uploadedFiles.kind = "array"
       THEN JSONstringifyArray(FilterOut(uploadedFiles.val, fileId))
       ELSE uploadedFiles
  /\ ev' = NoEvent
  /\ UNCHANGED <<page, userData, error, timers>>

\* the X button of an entry of the list
removeFile(fileId) ==
  /\ page = "/dashboard"
  /\ uploadingFiles' = FilterOut(uploadingFiles, fileId)
  /\ ev' = NoEvent
  /\ UNCHANGED <<page, userData, uploadedFiles, error, timers>>

\* uploadingFiles.reduce((sum, file) => sum + file.progress, 0)
TotalProgress(files) ==
  LET sum[i \in 0 .. Len(files)] ==
        IF i = 0 THEN 0 ELSE sum[i - 1] + files[i].progress
  IN sum[Len(files)]

\* variant: no test of the length, the quotient is taken of the empty list too
getTotalProgress_NoLength ==
  [num |-> TotalProgress(uploadingFiles), den |-> Len(uploadingFiles)]

\* getTotalProgress(): 0 for the empty list, else the quotient of the sum and
\* the length; the quotient is kept as numerator and denominator
getTotalProgress ==
  IF Len(uploadingFiles) = 0 THEN [num |-> 0, den |-> 1]
  ELSE [num |-> TotalProgress(uploadingFiles), den |-> Len(uploadingFiles)]

\* variant: no test of the length
allUploaded_NoLength ==
  \A i \in DOMAIN uploadingFiles : uploadingFiles[i].status = "complete"

\* uploadingFiles.length > 0 && uploadingFiles.every(f => f.status === 'complete')
allUploaded ==
  Len(uploadingFiles) > 0
    /\ \A i \in DOMAIN uploadingFiles : uploadingFiles[i].status = "complete"

Next ==
  \/ \E email \in Emails, password \in Passwords : handleLogin(email, password)
  \/ openLogin
  \/ \E files \in FileLists : \E stamps \in [DOMAIN files -> Times] :
       handleFileSelect(files, stamps)
  \/ \E file \in Files, r \in Incs, now \in Times : tick(file, r, now)
  \/ \E file \in Files : removeCompleted(file)
  \/ \E i \in DOMAIN uploadingFiles : removeFile(uploadingFiles[i].id)

Spec == Init /\ [][Next]_vars

\* The scheduling of the timers: an interval that is not cleared fires again
\* (every 200 ms) and a timeout that was set fires (after 2000 ms);
\* Math.random() does not return 0 for ever.
Fairness ==
  /\ \A file \in Files :
       WF_vars(\E r \in Incs \ {0}, now \in Times : tick(file, r, now))
  /\ \A file \in Files : WF_vars(removeCompleted(file))

LiveSpec == Spec /\ Fairness

----------------------------------------------------------------------------
(* Properties of the login form *)

\* the stored text is a user record whose email and password are the given ones
StoredMatches(item, email, password) ==
  /\ item.kind = "object"
  /\ Get(item.val, "email") = email
  /\ Get(item.val, "password") = password

\* the step just taken is a login attempt with these inputs
LoginStep(email, password) ==
  ev'.op = "handleLogin" /\ ev'.arg = <<email, password>>

\* C1: a login attempt whose non-empty email and password equal those of the
\* stored user record succeeds (success toast, no error signal), and leaves
\* under 'userData' a record with isLoggedIn = true and the name and email
\* the stored record had.
C1_LoginSucceeds ==
  [][\A email \in Emails, password \in Passwords :
       (/\ LoginStep(email, password)
        /\ email # "" /\ password # ""
        /\ StoredMatches(userData, email, password))
       => /\ ev'.toast = "Successfully logged in"
          /\ ~ev'.setError /\ ~ev'.threw /\ error' = error
          /\ userData'.kind = "object"
          /\ "isLoggedIn" \in DOMAIN userData'.val
          /\ userData'.val.isLoggedIn = TRUE
          /\ Get(userData'.val, "name") = Get(userData.val, "name")
          /\ Get(userData'.val, "email") = Get(userData.val, "email")]_vars

\* C1 witness: a login attempt has succeeded and the stored record is logged in
C1_Witness ==
  /\ ev.op = "handleLogin" /\ ev.toast = "Successfully logged in"
  /\ userData.kind = "object"
  /\ "isLoggedIn" \in DOMAIN userData.val /\ userData.val.isLoggedIn = TRUE
  /\ Get(userData.val, "name") = "Ann"

\* C2: a login attempt with non-empty fields against an absent record, or a
\* record whose email or password differs from the submitted one, fails with
\* the invalid-credentials signal and leaves 'userData' as it was.
C2_LoginRejected ==
  [][\A email \in Emails, password \in Passwords :
       (/\ LoginStep(email, password)
        /\ email # "" /\ password # ""
        /\ ~ParseThrows(userData)
        /\ ~StoredMatches(userData, email, password))
       => /\ ev'.toast = "Invalid credentials"
          /\ ev'.setError
          /\ error' = "Invalid credentials. Please try again."
          /\ ~ev'.threw
          /\ userData' = userData
          /\ uploadedFiles' = uploadedFiles
          /\ page' = page]_vars

\* C2 witness: a rejected attempt against a stored record with another password
C2_Witness ==
  /\ ev.op = "handleLogin" /\ ev.toast = "Invalid credentials"
  /\ userData = SignedUp
  /\ ev.arg[1] = "u@x" /\ ev.arg[2] = "q"

\* C3: a login attempt with an empty email or an empty password fails with
\* the 'fill in all fields' signal, not the invalid-credentials one, and
\* leaves the store as it was.
C3_ValidationFails ==
  [][\A email \in Emails, password \in Passwords :
       (/\ LoginStep(email, password)
        /\ (email = "" \/ password = ""))
       => /\ ev'.toast = "Please fill in all fields"
          /\ ~ev'.setError /\ error' = error
          /\ ~ev'.threw
          /\ userData' = userData
          /\ uploadedFiles' = uploadedFiles
          /\ page' = page]_vars

\* C3 witness: an attempt with the email filled in and the password empty was
\* turned down by the validation while a matching record was stored
C3_Witness ==
  /\ ev.op = "handleLogin" /\ ev.toast = "Please fill in all fields"
  /\ ev.arg[1] = "u@x" /\ ev.arg[2] = ""
  /\ userData = SignedUp

\* C4: malformed text under 'userData' or 'uploadedFiles' never makes an
\* operation raise: no login attempt and no timer callback ends in an
\* exception.
C4_NeverRaises ==
  /\ ~ev.threw
  /\ \A f \in Files : timers[f].state # "threw"

\* C11 as stated: every login attempt reads the store exactly once.
C11_ExactlyOneRead ==
  [][\A email \in Emails, password \in Passwords :
       LoginStep(email, password) => ev'.reads = 1]_vars

\* C11 amended: a login attempt with an empty field reads nothing; every
\* other attempt reads 'userData' exactly once.  An attempt writes at most
\* once, and only when it succeeds: without a write the store is as it was,
\* and 'uploadedFiles' is never written.
C11_ReadsAndWrites ==
  [][\A email \in Emails, password \in Passwords :
       LoginStep(email, password)
       => /\ ev'.reads = (IF email = "" \/ password = "" THEN 0 ELSE 1)
          /\ ev'.writes \in {0, 1}
          /\ (ev'.writes = 1) = (ev'.toast = "Successfully logged in")
          /\ (ev'.writes = 1) =>
                (~ev'.threw /\ StoredMatches(userData, email, password))
          /\ (ev'.writes = 0) => userData' = userData
          /\ uploadedFiles' = uploadedFiles]_vars

\* C11 witness: an attempt with an empty email was turned down without a
\* read of a store that holds a record
C11_Witness ==
  /\ ev.op = "handleLogin" /\ ev.arg = <<"", "p">>
  /\ ev.reads = 0 /\ ev.writes = 0
  /\ userData = SignedUp

\* the stored text is a record that a successful login wrote
LoggedIn(item) ==
  /\ item.kind = "object"
  /\ "isLoggedIn" \in DOMAIN item.val
  /\ item.val.isLoggedIn = TRUE

\* C17: the record a successful login writes holds name, email and
\* isLoggedIn = true and no password; every later attempt with non-empty
\* fields against that record, the pair that just succeeded included, is
\* rejected as invalid credentials and leaves the store as it was.
C17_NoSecondLogin ==
  [][\A email \in Emails, password \in Passwords :
       LoginStep(email, password)
       => /\ (ev'.toast = "Successfully logged in")
               => /\ LoggedIn(userData')
                  /\ DOMAIN userData'.val = {"name", "email", "isLoggedIn"}
          /\ (LoggedIn(userData) /\ email # "" /\ password # "")
               => /\ ev'.toast = "Invalid credentials"
                  /\ ev'.setError /\ ~ev'.threw
                  /\ userData' = userData
                  /\ uploadedFiles' = uploadedFiles
                  /\ page' = page]_vars

\* C17 witness: the pair that logged in was rejected against the record its
\* login wrote
C17_Witness ==
  /\ ev.op = "handleLogin" /\ ev.arg = <<"u@x", "p">>
  /\ ev.toast = "Invalid credentials"
  /\ LoggedIn(userData)
  /\ "password" \notin DOMAIN userData.val
  /\ Get(userData.val, "email") = "u@x"

----------------------------------------------------------------------------
(* Properties of the uploader *)

\* the timer of the file has counted to 100
Reached100(f) == timers[f].state \in {"timeout", "done", "threw"}

\* the positions of the stored sequence that hold the record of the file
RecordsOf(f) ==
  {i \in DOMAIN StoredFiles :
     /\ StoredFiles[i].id = timers[f].fileId
     /\ StoredFiles[i].name = f.name
     /\ StoredFiles[i].type = f.type
     /\ StoredFiles[i].size = f.size
     /\ StoredFiles[i].isFolder = FALSE}

\* C5: whatever the interleaving of the timers, each file that reached 100
\* has exactly one record in the stored 'uploadedFiles' sequence, with its
\* name, type and size and isFolder = false (and a file that did not has none).
C5_ExactlyOneRecord ==
  \A f \in Files :
    Cardinality(RecordsOf(f)) = (IF Reached100(f) THEN 1 ELSE 0)

\* the step just taken is a run of the interval callback of the file: it drew
\* the increment 0, or it changed the timer
TickStep(f) ==
  \/ ev'.op = "tick" /\ ev'.arg = f
  \/ timers[f].state = "ticking" /\ timers'[f] # timers[f]

\* C6 as stated: every tick leaves the progress of its file strictly greater
\* than before.
C6_StrictlyIncreasing ==
  [][\A f \in Files :
       TickStep(f) => timers'[f].progress > timers[f].progress]_vars

\* C6 amended: a tick happens only while the progress of its file is below
\* 100; it adds the increment drawn, a number of [0, 10), so the progress
\* never decreases and grows unless the increment is 0; a sum of 100 or more
\* is clamped to 100, and the timer is stopped exactly when the progress is 100.
C6_NonDecreasing ==
  [][\A f \in Files :
       TickStep(f)
       => /\ timers[f].state = "ticking" /\ timers[f].progress < 100
          /\ timers'[f].progress >= timers[f].progress
          /\ timers'[f].progress < timers[f].progress + 10
          /\ timers'[f].progress <= 100
          /\ (timers'[f].progress = timers[f].progress) = (ev'.op = "tick")
          /\ (timers'[f].progress = 100) = (timers'[f].state # "ticking")]_vars

\* C6 witness: a tick of a started timer drew the increment 0, and another
\* timer was clamped to 100 and stopped
C6_Witness ==
  /\ ev.op = "tick"
  /\ timers[ev.arg].state = "ticking" /\ timers[ev.arg].progress > 0
  /\ \E g \in Files : timers[g].progress = 100 /\ timers[g].state = "timeout"

IsPrefix(s, t) ==
  Len(s) <= Len(t) /\ \A i \in DOMAIN s : s[i] = t[i]

\* C7: the stored 'uploadedFiles' sequence is append-only: before every step
\* it is a prefix of what it is after the step.
C7_AppendOnly == [][IsPrefix(StoredFiles, StoredFiles')]_vars

\* C7 witness: two records were appended behind the one of an earlier session
C7_Witness ==
  /\ Len(StoredFiles) = 3
  /\ StoredFiles[1] = OldRecord
  /\ \A f \in Files : Reached100(f) => RecordsOf(f) \subseteq {2, 3}

\* a removal timeout is pending for the id
RemovalPending(id) ==
  \E f \in Files : timers[f].state = "timeout" /\ timers[f].fileId = id

\* C8: an entry with status complete is in the list while its removal delay
\* runs, and the end of the delay takes it out: every complete entry of the
\* list has a removal of its id pending.
C8_CompleteUntilRemoved ==
  \A i \in DOMAIN uploadingFiles :
    uploadingFiles[i].status = "complete"
      => RemovalPending(uploadingFiles[i].id)

\* the step just taken is a submission of files
SubmitStep ==
  \E f \in Files : timers[f].state = "none" /\ timers'[f].state # "none"

\* C9: 'all uploaded' is true exactly when the list is non-empty and holds
\* only complete entries, and submitting files while it is true makes it
\* false.
C9_AllUploaded ==
  [][/\ allUploaded' =
          (/\ uploadingFiles' # <<>>
           /\ {i \in DOMAIN uploadingFiles' :
                 uploadingFiles'[i].status # "complete"} = {})
     /\ (SubmitStep /\ allUploaded) => ~allUploaded']_vars

\* C9 witness: a file was submitted to a list of one complete entry
C9_Witness ==
  /\ Len(uploadingFiles) = 2
  /\ uploadingFiles[1].status = "complete"
  /\ uploadingFiles[2].status = "uploading"
  /\ uploadingFiles[2].progress = 0
  /\ timers[uploadingFiles[2].file].progress = 0
  /\ ~allUploaded

\* the entries of the list that hold the file
EntriesOf(f) == {i \in DOMAIN uploadingFiles : uploadingFiles[i].file = f}

\* C12: under the fairness of the timers every submitted file completes: its
\* progress reaches 100, its record is in the stored 'uploadedFiles' sequence
\* and no entry of it is left in status uploading.
C12_EventuallyCompletes ==
  \A f \in Files :
    (timers[f].state = "ticking")
      ~> (/\ timers[f].progress = 100
          /\ RecordsOf(f) # {}
          /\ \A i \in EntriesOf(f) : uploadingFiles[i].status = "complete")

\* the two files were submitted in one batch, to a store of n records
Batch(a, b, n) ==
  /\ a.name # b.name
  /\ Len(uploadingFiles) = 2
  /\ uploadingFiles[1] = NewEntry(a, uploadingFiles[1].id[2])
  /\ uploadingFiles[2] = NewEntry(b, uploadingFiles[2].id[2])
  /\ timers[a] = simulateFileUpload(uploadingFiles[1].id)
  /\ timers[b] = simulateFileUpload(uploadingFiles[2].id)
  /\ \A f \in Files \ {a, b} : timers[f].state = "none"
  /\ Len(StoredFiles) = n

\* the user has removed the entry of a file whose removal was not yet due
UserRemoved ==
  \E f \in Files :
    timers[f].state \in {"ticking", "timeout", "threw"} /\ EntriesOf(f) = {}

\* the store has gained one record per file, behind the n it had
TwoRecordsGained(a, b, n) ==
  /\ Len(StoredFiles) = n + 2
  /\ Cardinality(RecordsOf(a)) = 1 /\ Cardinality(RecordsOf(b)) = 1
  /\ RecordsOf(a) \cup RecordsOf(b) = {n + 1, n + 2}

\* C13: two files of different names submitted in one batch make a list of
\* two entries with status uploading and progress 0; unless the user removes
\* an entry, the run reaches a state where the store has gained exactly two
\* records, one per file (name, size, isFolder = false), the aggregate
\* progress is 100 and 'all uploaded' is true.
C13_TwoFileScenario ==
  \A a, b \in Files : \A n \in 0 .. 1 :
    Batch(a, b, n)
      ~> (\/ UserRemoved
          \/ /\ TwoRecordsGained(a, b, n)
             /\ getTotalProgress.num = 100 * getTotalProgress.den
             /\ allUploaded)

\* the sum of the progress of the entries at the positions S of the list
RECURSIVE ProgressSum(_)
ProgressSum(S) ==
  IF S = {} THEN 0
  ELSE LET i == CHOOSE i \in S : TRUE
       IN uploadingFiles[i].progress + ProgressSum(S \ {i})

\* C14: in every state getTotalProgress is a number: 0 for the empty list,
\* else the sum of the progress of the entries of the list divided by their
\* number; it lies in [0, 100].
C14_MeanProgress ==
  LET mean == getTotalProgress
  IN /\ mean.den > 0
     /\ IF uploadingFiles = <<>> THEN mean.num = 0
        ELSE mean.num * Len(uploadingFiles)
               = mean.den * ProgressSum(DOMAIN uploadingFiles)
     /\ 0 <= mean.num /\ mean.num <= 100 * mean.den

\* C14 witness: the mean of a complete entry at 100 and an entry at 9 is 54.5
C14_Witness ==
  /\ Len(uploadingFiles) = 2
  /\ uploadingFiles[1].progress = 100 /\ uploadingFiles[2].progress = 9
  /\ getTotalProgress.num = 109 /\ getTotalProgress.den = 2

\* C15: the list is empty at first, and every step that changes it leaves
\* it with entries of status uploading or complete only, never error; an
\* entry of a file that had none is created with status uploading; an entry
\* that is complete stays complete as long as it is in the list.
C15_StatusMachine ==
  [][uploadingFiles' # uploadingFiles
     => /\ \A j \in DOMAIN uploadingFiles' :
             /\ uploadingFiles'[j].status \in {"uploading", "complete"}
             /\ EntriesOf(uploadingFiles'[j].file) = {}
                  => uploadingFiles'[j].status = "uploading"
        /\ \A i \in DOMAIN uploadingFiles, j \in DOMAIN uploadingFiles' :
             (/\ uploadingFiles'[j].file = uploadingFiles[i].file
              /\ uploadingFiles[i].status = "complete")
             => uploadingFiles'[j].status = "complete"]_vars

\* C15 witness: an entry is complete while the timer of its own file, which
\* shares the id of the file that completed, has ticked and still runs
C15_Witness ==
  \E i \in DOMAIN uploadingFiles :
    /\ uploadingFiles[i].status = "complete"
    /\ timers[uploadingFiles[i].file].state = "ticking"
    /\ timers[uploadingFiles[i].file].progress > 0
    /\ uploadingFiles[i].progress = timers[uploadingFiles[i].file].progress

\* the step just taken is a callback of the file: a run of its interval
\* callback, or its delayed removal
CallbackStep(f) ==
  \/ TickStep(f)
  \/ timers[f].state = "timeout" /\ timers'[f].state = "done"

\* C16: a callback of one file leaves the entry of every other file in the
\* list as it was (progress, status, presence), files of one id included;
\* and every complete entry has progress 100.
C16_OwnEntryOnly ==
  [][/\ \A f \in Files :
          CallbackStep(f)
          => \A i \in DOMAIN uploadingFiles :
               uploadingFiles[i].file # f
               => \E j \in DOMAIN uploadingFiles' :
                    uploadingFiles'[j] = uploadingFiles[i]
     /\ \A j \in DOMAIN uploadingFiles' :
          uploadingFiles'[j].status = "complete"
          => uploadingFiles'[j].progress = 100]_vars

\* C18: the removal of an entry that is still uploading leaves the timer of
\* its file as it is; the timer of a file without an entry keeps ticking,
\* the tick that brings it to 100 appends the record of the file to the
\* stored sequence, and no entry of the file comes back into the list.
C18_RemovedKeepsRunning ==
  /\ [][\A f \in Files :
          /\ (timers[f].state = "ticking" /\ EntriesOf(f) # {}
                /\ EntriesOf(f)' = {})
               => timers'[f] = timers[f]
          /\ (timers[f].state = "ticking" /\ EntriesOf(f) = {})
               => /\ EntriesOf(f)' = {}
                  /\ timers'[f].state # "none"
                  /\ (TickStep(f) /\ timers'[f].progress = 100)
                       => /\ Len(StoredFiles') = Len(StoredFiles) + 1
                          /\ Len(StoredFiles') \in RecordsOf(f)']_vars
  /\ \A f \in Files :
       (timers[f].state = "ticking" /\ EntriesOf(f) = {})
         ~> (timers[f].progress = 100 /\ RecordsOf(f) # {}
              /\ EntriesOf(f) = {})

\* the step just taken is a removal by the user: the list gets shorter and
\* no timer callback ran
RemoveStep ==
  /\ Len(uploadingFiles') < Len(uploadingFiles)
  /\ timers' = timers

\* C10: removing an entry, before or after its completion, changes the
\* transient list only: 'uploadedFiles' and 'userData' stay as they are, so
\* the records stored stay stored, and the list loses the entries of one id
\* and nothing else.
C10_RemoveFileFrame ==
  [][RemoveStep
       => /\ uploadedFiles' = uploadedFiles
          /\ userData' = userData
          /\ page' = page /\ error' = error
          /\ \E i \in DOMAIN uploadingFiles :
               uploadingFiles' = FilterOut(uploadingFiles, uploadingFiles[i].id)]_vars

\* C10 witness: the only file submitted is complete and its record is stored;
\* the user has removed its entry while the removal delay still runs
C10_Witness ==
  /\ uploadingFiles = <<>>
  /\ \E f \in Files :
       /\ timers[f].state = "timeout"
       /\ RecordsOf(f) # {}
       /\ \A g \in Files \ {f} : timers[g].state = "none"

====
